---------------------------- MODULE Spec2Model ----------------------------
(***************************************************************************)
(* Services API (services and their versions over a MySQL/InnoDB store).   *)
(*                                                                         *)
(* The model covers the refactored handlers (internal/handlers), the data  *)
(* accessors (internal/database), the pagination helpers (pkg/utils) and   *)
(* the schema of migrations/0001_init.sql.  A request is a handler run by  *)
(* one of the request slots of Req; every store statement is one atomic    *)
(* step, so two requests interleave between statements.                    *)
(***************************************************************************)
EXTENDS Integers, Sequences, FiniteSets, TLC

VARIABLES
    services,   \* committed rows of table services: id -> row
    versions,   \* committed rows of table versions: a set of rows
    now,        \* the store's CURRENT_TIMESTAMP (seconds, logical)
    uuids,      \* how many identifiers uuid.New() has handed out
    pc,         \* per request slot: where its handler stands
    req,        \* per request slot: the request being served
    loc,        \* per request slot: the handler's local variables
    tx,         \* per request slot: its open transaction (CreateVersion)
    resp,       \* per request slot: the response written
    calc        \* input and output of a bare CalculatePagination call

vars == <<services, versions, now, uuids, pc, req, loc, tx, resp, calc>>

-----------------------------------------------------------------------------
(* Bounds of the model *)

\* identifiers uuid.New() may hand out in one run
MaxUUID == 2
\* how far CURRENT_TIMESTAMP may advance past the seed's second
MaxClock == 1
\* largest row count handed to a bare CalculatePagination call
MaxTotal == 7
\* largest page / pageSize handed to a bare CalculatePagination call
MaxPage == 4

-----------------------------------------------------------------------------
(* Go's int on the build's platform: 64 bits, two's complement, arithmetic *)
(* that wraps around.  A value is written as its four 16-bit limbs, least  *)
(* significant first.                                                      *)

Limb == 65536
Zero64 == <<0, 0, 0, 0>>

\* a + b + carry, limb by limb; the carry out of the last limb is dropped
AddLimbs[a \in Seq(Nat), b \in Seq(Nat), carry \in Nat] ==
    IF a = <<>> THEN <<>>
    ELSE LET sum == a[1] + b[1] + carry
         IN  <<sum % Limb>> \o AddLimbs[Tail(a), Tail(b), sum \div Limb]

\* a * m + carry for 0 <= m < 2^15, limb by limb; the carry out of the last
\* limb is dropped
MulLimbs[a \in Seq(Nat), m \in Nat, carry \in Nat] ==
    IF a = <<>> THEN <<>>
    ELSE LET prod == a[1] * m + carry
         IN  <<prod % Limb>> \o MulLimbs[Tail(a), m, prod \div Limb]

Add64(a, b) == AddLimbs[a, b, 0]
Neg64(a) == Add64([i \in 1..4 |-> Limb - 1 - a[i]], <<1, 0, 0, 0>>)
IsNegative(a) == a[4] >= Limb \div 2

\* the int with the value n, for an n of magnitude below 2^30
I64(n) ==
    IF n >= 0 THEN <<n % Limb, n \div Limb, 0, 0>>
    ELSE Neg64(<<(0 - n) % Limb, (0 - n) \div Limb, 0, 0>>)

\* the int a has a magnitude below 2^30, and then its value
IsSmall(a) ==
    \/ a[3] = 0 /\ a[4] = 0 /\ a[2] < 16384
    \/ a[3] = Limb - 1 /\ a[4] = Limb - 1 /\ a[2] >= Limb - 16384
Small(a) ==
    IF IsNegative(a) THEN LET p == Neg64(a) IN 0 - (p[2] * Limb + p[1])
    ELSE a[2] * Limb + a[1]

\* a < b
Less64(a, b) ==
    IF IsNegative(a) # IsNegative(b) THEN IsNegative(a)
    ELSE IsNegative(Add64(a, Neg64(b)))

\* a * m for an m of magnitude below 2^15
Mul64Small(a, m) ==
    IF m >= 0 THEN MulLimbs[a, m, 0] ELSE Neg64(MulLimbs[a, 0 - m, 0])

-----------------------------------------------------------------------------
(* strconv.Atoi, on strings given as sequences of one-character strings *)

Digits == {"0", "1", "2", "3", "4", "5", "6", "7", "8", "9"}

DigitVal(c) ==
    CASE c = "0" -> 0 [] c = "1" -> 1 [] c = "2" -> 2 [] c = "3" -> 3
      [] c = "4" -> 4 [] c = "5" -> 5 [] c = "6" -> 6 [] c = "7" -> 7
      [] c = "8" -> 8 [] c = "9" -> 9

\* 2^63 - 1 and 2^63, the largest magnitudes of a positive and of a
\* negative int (strconv.IntSize = 64), as decimal digits
MaxIntDigits == <<9,2,2,3,3,7,2,0,3,6,8,5,4,7,7,5,8,0,7>>
MinIntDigits == <<9,2,2,3,3,7,2,0,3,6,8,5,4,7,7,5,8,0,8>>

RECURSIVE StripZeros(_)
StripZeros(ds) ==
    IF Len(ds) > 1 /\ ds[1] = 0 THEN StripZeros(Tail(ds)) ELSE ds

\* lexicographic a > b for digit sequences of the same length
RECURSIVE DigitsGreater(_, _)
DigitsGreater(a, b) ==
    IF a = <<>> THEN FALSE
    ELSE IF a[1] # b[1] THEN a[1] > b[1]
    ELSE DigitsGreater(Tail(a), Tail(b))

\* the magnitude ds (no leading zeros) exceeds the magnitude lim
ExceedsDigits(ds, lim) ==
    \/ Len(ds) > Len(lim)
    \/ Len(ds) = Len(lim) /\ DigitsGreater(ds, lim)

\* the int with the decimal digits ds after those of acc
DigitsValue[ds \in Seq(Nat), acc \in Seq(Nat)] ==
    IF ds = <<>> THEN acc
    ELSE DigitsValue[Tail(ds), Add64(MulLimbs[acc, 10, 0], I64(ds[1]))]

\* the result of strconv.Atoi(s): err is "" (nil), "syntax" or "range"
Atoi(s) ==
    LET signed == s # <<>> /\ s[1] \in {"+", "-"}
        neg    == s # <<>> /\ s[1] = "-"
        body   == IF signed THEN Tail(s) ELSE s
    IN  IF body = <<>> \/ \E i \in 1..Len(body) : body[i] \notin Digits
        THEN [err |-> "syntax", val |-> Zero64]
        ELSE LET ds == StripZeros([i \in 1..Len(body) |-> DigitVal(body[i])])
             IN  IF ExceedsDigits(ds, IF neg THEN MinIntDigits ELSE MaxIntDigits)
                 THEN [err |-> "range", val |-> Zero64]
                 ELSE [err |-> "",
                       val |-> IF neg THEN Neg64(DigitsValue[ds, Zero64])
                                      ELSE DigitsValue[ds, Zero64]]

-----------------------------------------------------------------------------
(* pkg/utils: parameter extraction and pagination metadata *)

DefaultPage == 1
DefaultPageSize == 10
MaxPageSize == 100

\* the field accepting zero (page >= 0 for page > 0)
ParseFieldNonNegative(str, default) ==
    IF str # <<>>
    THEN LET r == Atoi(str)
         IN  IF r.err = "" /\ ~IsNegative(r.val) THEN r.val ELSE I64(default)
    ELSE I64(default)

\* one query field of GetPaginationParams / GetSearchParams: the default
\* unless the string is non-empty, parses, and is positive
ParseField(str, default) ==
    IF str # <<>>
    THEN LET r == Atoi(str)
         IN  IF r.err = "" /\ Less64(Zero64, r.val) THEN r.val ELSE I64(default)
    ELSE I64(default)

\* gin's c.Query(key) on the query string of a request, a function from the
\* keys it carries to their values: "" for a key it does not carry
Query(query, key) == IF key \in DOMAIN query THEN query[key] ELSE <<>>

GetPaginationParams(query) ==
    [Page     |-> ParseField(Query(query, "page"), DefaultPage),
     PageSize |-> ParseField(Query(query, "page_size"), DefaultPageSize)]

GetSearchParams(query) ==
    [Query    |-> Query(query, "q"),
     Page     |-> ParseField(Query(query, "page"), DefaultPage),
     PageSize |-> ParseField(Query(query, "page_size"), DefaultPageSize)]

\* Go's integer division truncates toward zero
GoDiv(a, b) ==
    IF (a >= 0) = (b > 0) THEN (IF a >= 0 THEN a ELSE 0 - a) \div (IF b > 0 THEN b ELSE 0 - b)
    ELSE 0 - ((IF a >= 0 THEN a ELSE 0 - a) \div (IF b > 0 THEN b ELSE 0 - b))

\* the division without its rounding term
TotalPagesFloor(pageSize, total) == GoDiv(total, pageSize)

TotalPages(pageSize, total) == GoDiv(total + pageSize - 1, pageSize)

\* HasNext off by one (page <= totalPages for page < totalPages)
CalculatePaginationInclusive(page, pageSize, total) ==
    LET totalPages == TotalPages(pageSize, total)
    IN  [Page       |-> page,
         PageSize   |-> pageSize,
         Total      |-> total,
         TotalPages |-> totalPages,
         HasNext    |-> ~Less64(I64(totalPages), page),
         HasPrev    |-> Less64(I64(1), page)]

CalculatePagination(page, pageSize, total) ==
    LET totalPages == TotalPages(pageSize, total)
    IN  [Page       |-> page,
         PageSize   |-> pageSize,
         Total      |-> total,
         TotalPages |-> totalPages,
         HasNext    |-> Less64(page, I64(totalPages)),
         HasPrev    |-> Less64(I64(1), page)]

-----------------------------------------------------------------------------
(* The store: schema of migrations/0001_init.sql, rows of the seed *)

\* the request slots: requests served at the same time
Req == {"r1", "r2"}

\* identifiers uuid.New() hands out, in the order it hands them out
UUIDNames == <<"u1", "u2", "u3", "u4", "u5">>
NewUUID == UUIDNames[uuids + 1]

StatusEnum == {"draft", "released", "deprecated"}

\* a request body that is not JSON for the bound struct
Malformed == [malformed |-> TRUE]

\* services after goose up: the three seeded rows, versions_count set by
\* the seed's closing UPDATE
SeedServices ==
    ( "s1" :> [name |-> <<"locate", "us">>, slug |-> "locate-us",
               description |-> <<"store", "locator">>,
               created_at |-> 0, versions_count |-> 0] )
 @@ ( "s2" :> [name |-> <<"collect", "money">>, slug |-> "collect-money",
               description |-> <<"payments", "collection">>,
               created_at |-> 0, versions_count |-> 1] )
 @@ ( "s3" :> [name |-> <<"notifications">>, slug |-> "notifications",
               description |-> <<"send", "push", "email">>,
               created_at |-> 0, versions_count |-> 2] )

SeedVersions ==
    { [id |-> "v1", service_id |-> "s3", semver |-> "1.0.0", status |-> "released",
       changelog |-> "Initial release", created_at |-> 0],
      [id |-> "v2", service_id |-> "s3", semver |-> "1.1.0", status |-> "released",
       changelog |-> "Minor improvements", created_at |-> 0],
      [id |-> "v3", service_id |-> "s2", semver |-> "0.1.0", status |-> "draft",
       changelog |-> "WIP", created_at |-> 0] }

\* the rows of versions that reference service id
VersionsOf(vs, id) == {v \in vs : v.service_id = id}

\* reads that see the rows transactions have inserted but not committed
ReadVersionsDirty == versions \cup UNION {tx[o].ins : o \in DOMAIN tx}

\* what a plain SELECT reads: the handlers' reads run outside any
\* transaction and see committed rows only
ReadServices == services
ReadVersions == versions

\* a services row as the SELECT of GetServices / GetServiceByID scans it
ServiceEntity(id) == [id |-> id] @@ ReadServices[id]

\* no transaction
NoTx == [open |-> FALSE, ins |-> {}, inc |-> {}, slock |-> {}, xlock |-> {}]

\* a lock on the whole table: any open transaction of another holds it
HeldByOtherTable(r, id) == \E o \in Req \ {r} : tx[o].open

\* InnoDB row locks on services rows held by the transactions of others
XHeldByOther(r, id) == \E o \in Req \ {r} : id \in tx[o].xlock
SHeldByOther(r, id) == \E o \in Req \ {r} : id \in tx[o].slock
LockedByOther(r, id) == XHeldByOther(r, id) \/ SHeldByOther(r, id)

\* the schema without uq_services_slug: only names are unique
DuplicateNameOnly(id, name, slug) ==
    \E o \in DOMAIN services \ {id} : services[o].name = name

\* uq_services_name / uq_services_slug: another row has the name or slug
Duplicate(id, name, slug) ==
    \E o \in DOMAIN services \ {id} :
        services[o].name = name \/ services[o].slug = slug

\* a word of q occurs in name or description (FULLTEXT ft_services_name_desc,
\* MATCH ... AGAINST in natural language mode)
Words(seq) == {seq[i] : i \in 1..Len(seq)}
Matches(q, id) ==
    Words(q) \cap (Words(ReadServices[id].name)
                     \cup Words(ReadServices[id].description)) # {}
\* the relevance the search orders by: the number of words of q that occur
Relevance(q, id) ==
    Cardinality(Words(q) \cap (Words(ReadServices[id].name)
                                 \cup Words(ReadServices[id].description)))

RECURSIVE PermSeqs(_)
PermSeqs(S) ==
    IF S = {} THEN {<<>>}
    ELSE UNION {{<<x>> \o p : p \in PermSeqs(S \ {x})} : x \in S}

\* the orders in which ORDER BY key DESC may return the rows S: rows with
\* equal keys come in any order
OrderedDesc(S, key) ==
    {s \in PermSeqs(S) : \A i \in 1..Len(s) : \A j \in i..Len(s) : key[s[i]] >= key[s[j]]}

\* LIMIT limit OFFSET offset of an ordered result
LimitOffset(s, limit, offset) ==
    IF offset >= Len(s) THEN <<>>
    ELSE SubSeq(s, offset + 1, IF offset + limit < Len(s) THEN offset + limit ELSE Len(s))

\* the offset counting the requested page in
OffsetOfNextPage(params) == Mul64Small(params.Page, Small(params.PageSize))

\* offset := (params.Page - 1) * params.PageSize, for the page sizes the
\* handlers let through (1..MaxPageSize)
Offset(params) ==
    Mul64Small(Add64(params.Page, I64(0 - 1)), Small(params.PageSize))

-----------------------------------------------------------------------------
(* Requests and responses *)

NoReq  == [op |-> "none"]
NoResp == [status |-> 0]
NoLoc  == [queries |-> 0]
NoCalc == [fn |-> "none"]

\* c.JSON(status, gin.H{"error": msg})
ErrorResponse(status, msg) == [status |-> status, error |-> msg]

\* a slot is free when it serves no request or has answered its last one
Free(r) == pc[r] \in {"idle", "done"}

\* the handler of slot r answers and returns; queries is the number of
\* store statements it has issued
Answer(r, response, queries) ==
    /\ pc'   = [pc   EXCEPT ![r] = "done"]
    /\ resp' = [resp EXCEPT ![r] = response]
    /\ loc'  = [loc  EXCEPT ![r] = [queries |-> queries]]

\* the range check without its upper limit
PaginationErrorNoMax(params) ==
    IF Less64(params.Page, I64(1)) THEN "page must be greater than 0"
    ELSE IF Less64(params.PageSize, I64(1))
         THEN "page_size must be between 1 and 100"
         ELSE ""

\* the range check every list handler runs on the extracted parameters
PaginationError(params) ==
    IF Less64(params.Page, I64(1)) THEN "page must be greater than 0"
    ELSE IF \/ Less64(params.PageSize, I64(1))
            \/ Less64(I64(MaxPageSize), params.PageSize)
         THEN "page_size must be between 1 and 100"
         ELSE ""

\* types.PaginatedResponse: a nil slice is encoded as JSON null
PaginatedResponse(rows, params, total) ==
    [status     |-> 200,
     data       |-> rows,
     null       |-> rows = <<>>,
     pagination |-> CalculatePagination(params.Page, Small(params.PageSize), total)]

\* the first store statement of a list handler: SELECT COUNT(*)
CountStep(r, params, total, o) ==
    IF o = "ok"
    THEN /\ pc'   = [pc   EXCEPT ![r] = "rows"]
         /\ loc'  = [loc  EXCEPT ![r] = [queries |-> 1, params |-> params, total |-> total]]
         /\ resp' = [resp EXCEPT ![r] = NoResp]
    ELSE Answer(r, ErrorResponse(500, "store: count failed"), 1)

\* what LIMIT limit OFFSET offset returns of an ordered result, for an
\* offset of any size: nothing, when the offset lies beyond 2^30 rows
PageOfRows(ord, limit, offset) ==
    IF IsSmall(offset) THEN LimitOffset(ord, limit, Small(offset)) ELSE <<>>

\* the second store statement of a list handler: the page of rows.  A
\* negative OFFSET is an argument the store rejects, or one it reads as an
\* unsigned number, beyond every row.
RowsStep(r, orders, o) ==
    LET offset == Offset(loc[r].params)
        limit  == Small(loc[r].params.PageSize)
    IN  IF o = "ok" /\ ~IsNegative(offset)
        THEN \E ord \in orders :
                Answer(r, PaginatedResponse(PageOfRows(ord, limit, offset),
                                            loc[r].params, loc[r].total), 2)
        ELSE \/ Answer(r, ErrorResponse(500, "store: select failed"), 2)
             \/ /\ o = "ok"
                /\ Answer(r, PaginatedResponse(<<>>, loc[r].params, loc[r].total), 2)

-----------------------------------------------------------------------------
(* internal/handlers + internal/database: the list endpoints *)

GetServices(r, query, o) ==
    /\ Free(r)
    /\ req' = [req EXCEPT ![r] = [op |-> "GetServices", query |-> query]]
    /\ LET params == GetPaginationParams(query)
       IN  IF PaginationError(params) # ""
           THEN Answer(r, ErrorResponse(400, PaginationError(params)), 0)
           ELSE CountStep(r, params, Cardinality(DOMAIN ReadServices), o)
    /\ UNCHANGED <<services, versions, now, uuids, tx, calc>>

GetServicesRows(r, o) ==
    /\ pc[r] = "rows" /\ req[r].op = "GetServices"
    /\ RowsStep(r, {[i \in 1..Len(s) |-> ServiceEntity(s[i])] :
                       s \in OrderedDesc(DOMAIN ReadServices,
                                         [id \in DOMAIN ReadServices |->
                                             ReadServices[id].created_at])}, o)
    /\ UNCHANGED <<services, versions, now, uuids, tx, calc, req>>

\* the checks of SearchServices with the pagination check first
SearchErrorPaginationFirst(params) ==
    IF PaginationError(params) # "" THEN PaginationError(params)
    ELSE IF params.Query = <<>> THEN "search query 'q' is required"
    ELSE ""

\* the checks of SearchServices, in the handler's order
SearchError(params) ==
    IF params.Query = <<>> THEN "search query 'q' is required"
    ELSE PaginationError(params)

SearchServices(r, query, o) ==
    /\ Free(r)
    /\ req' = [req EXCEPT ![r] = [op |-> "SearchServices", query |-> query]]
    /\ LET params == GetSearchParams(query)
       IN  IF SearchError(params) # ""
           THEN Answer(r, ErrorResponse(400, SearchError(params)), 0)
           ELSE CountStep(r, params,
                          Cardinality({id \in DOMAIN ReadServices :
                                          Matches(params.Query, id)}), o)
    /\ UNCHANGED <<services, versions, now, uuids, tx, calc>>

SearchServicesRows(r, o) ==
    /\ pc[r] = "rows" /\ req[r].op = "SearchServices"
    /\ LET q == loc[r].params.Query
       IN  RowsStep(r, {[i \in 1..Len(s) |-> ServiceEntity(s[i])] :
                          s \in OrderedDesc({id \in DOMAIN ReadServices : Matches(q, id)},
                                            [id \in DOMAIN ReadServices |->
                                                Relevance(q, id) * (MaxClock + 1)
                                                  + ReadServices[id].created_at])}, o)
    /\ UNCHANGED <<services, versions, now, uuids, tx, calc, req>>

GetVersions(r, id, query, o) ==
    /\ Free(r)
    /\ req' = [req EXCEPT ![r] = [op |-> "GetVersions", id |-> id, query |-> query]]
    /\ LET params == GetPaginationParams(query)
       IN  IF PaginationError(params) # ""
           THEN Answer(r, ErrorResponse(400, PaginationError(params)), 0)
           ELSE CountStep(r, params, Cardinality(VersionsOf(ReadVersions, id)), o)
    /\ UNCHANGED <<services, versions, now, uuids, tx, calc>>

GetVersionsRows(r, o) ==
    /\ pc[r] = "rows" /\ req[r].op = "GetVersions"
    /\ RowsStep(r, OrderedDesc(VersionsOf(ReadVersions, req[r].id),
                               [v \in ReadVersions |-> v.created_at]), o)
    /\ UNCHANGED <<services, versions, now, uuids, tx, calc, req>>

-----------------------------------------------------------------------------
(* internal/handlers + internal/database: single services *)

\* A store statement outside a transaction ends in one of three ways:
\*   "ok"   it is executed and acknowledged;
\*   "err"  it fails and is not executed (no connection, lock wait timeout);
\*   "lost" it is executed, but the acknowledgement never reaches the driver,
\*          which reports an error.
\* An UPDATE or DELETE that was executed and acknowledged can still end as
\*   "noresult" Result.RowsAffected() returns an error (sql.Result lets a
\*          driver do so): the accessor returns it and the handler answers 500.

\* the row INSERT INTO services (id, name, slug, description) stores
NewServiceRow(body) ==
    [name |-> body.name, slug |-> body.slug, description |-> body.description,
     created_at |-> now, versions_count |-> 0]

CreateService(r, body, o) ==
    /\ Free(r)
    /\ req' = [req EXCEPT ![r] = [op |-> "CreateService", body |-> body]]
    /\ IF body = Malformed
       THEN /\ Answer(r, ErrorResponse(400, "bind: malformed body"), 0)
            /\ UNCHANGED <<services, uuids>>
       ELSE /\ uuids < MaxUUID
            /\ uuids' = uuids + 1
            /\ IF o = "err"
               THEN /\ Answer(r, ErrorResponse(500, "store: insert failed"), 1)
                    /\ UNCHANGED services
               ELSE IF Duplicate(NewUUID, body.name, body.slug)
               THEN /\ Answer(r, ErrorResponse(500, "store: duplicate entry"), 1)
                    /\ UNCHANGED services
               ELSE /\ services' = (NewUUID :> NewServiceRow(body)) @@ services
                    /\ IF o = "ok"
                       THEN Answer(r, [status |-> 201,
                                       entity |-> [body EXCEPT !.id = NewUUID]], 1)
                       ELSE Answer(r, ErrorResponse(500, "store: insert failed"), 1)
    /\ UNCHANGED <<versions, now, tx, calc>>

GetService(r, id, o) ==
    /\ Free(r)
    /\ req' = [req EXCEPT ![r] = [op |-> "GetService", id |-> id]]
    /\ IF o # "ok"
       THEN Answer(r, ErrorResponse(500, "store: select failed"), 1)
       ELSE IF id \notin DOMAIN ReadServices
       THEN Answer(r, ErrorResponse(404, "Service not found"), 1)
       ELSE Answer(r, [status |-> 200, entity |-> ServiceEntity(id)], 1)
    /\ UNCHANGED <<services, versions, now, uuids, tx, calc>>

\* an UPDATE that writes every field the body binds, the count included
UpdatedRowWithCount(row, body) ==
    [row EXCEPT !.name = body.name, !.slug = body.slug, !.description = body.description,
                !.versions_count = body.versions_count]

\* the row UPDATE services SET name, slug, description leaves
UpdatedRow(row, body) ==
    [row EXCEPT !.name = body.name, !.slug = body.slug, !.description = body.description]

\* Result.RowsAffected of the UPDATE: the DSN does not set clientFoundRows,
\* so the store counts the rows it changed, not the rows it matched
UpdateRowsAffected(id, body) ==
    IF id \in DOMAIN services /\ UpdatedRow(services[id], body) # services[id]
    THEN 1 ELSE 0

\* database.UpdateService and what the handler answers from its result
UpdateServiceStore(r, id, body, o) ==
    IF o = "err"
    THEN /\ Answer(r, ErrorResponse(500, "store: update failed"), 1)
         /\ UNCHANGED services
    ELSE IF id \notin DOMAIN services
    THEN /\ Answer(r, IF o = "ok" THEN ErrorResponse(404, "Service not found")
                                  ELSE ErrorResponse(500, "store: update failed"), 1)
         /\ UNCHANGED services
    ELSE /\ ~LockedByOther(r, id)
         /\ IF Duplicate(id, body.name, body.slug)
            THEN /\ Answer(r, ErrorResponse(500, "store: duplicate entry"), 1)
                 /\ UNCHANGED services
            ELSE /\ services' = [services EXCEPT ![id] = UpdatedRow(@, body)]
                 /\ IF o # "ok"
                    THEN Answer(r, ErrorResponse(500, "store: update failed"), 1)
                    ELSE IF UpdateRowsAffected(id, body) = 0
                    THEN Answer(r, ErrorResponse(404, "Service not found"), 1)
                    ELSE Answer(r, [status |-> 200,
                                    entity |-> [body EXCEPT !.id = id]], 1)

\* the handler without the return after its 400: the UPDATE runs with the
\* struct the failed bind left empty
UpdateServiceNoReturn(r, id, body, o) ==
    /\ Free(r)
    /\ req' = [req EXCEPT ![r] = [op |-> "UpdateService", id |-> id, body |-> body]]
    /\ IF body = Malformed
       THEN /\ Answer(r, ErrorResponse(400, "bind: malformed body"), 0)
            /\ services' = [i \in DOMAIN services |->
                               IF i = id
                               THEN [services[i] EXCEPT !.name = <<>>, !.slug = "",
                                                        !.description = <<>>]
                               ELSE services[i]]
       ELSE UpdateServiceStore(r, id, body, o)
    /\ UNCHANGED <<versions, now, uuids, tx, calc>>

UpdateService(r, id, body, o) ==
    /\ Free(r)
    /\ req' = [req EXCEPT ![r] = [op |-> "UpdateService", id |-> id, body |-> body]]
    /\ IF body = Malformed
       THEN /\ Answer(r, ErrorResponse(400, "bind: malformed body"), 0)
            /\ UNCHANGED services
       ELSE UpdateServiceStore(r, id, body, o)
    /\ UNCHANGED <<versions, now, uuids, tx, calc>>

\* a DELETE that reports one row whatever it matched
DeleteRowsAffectedOne(id) == 1

\* Result.RowsAffected of DELETE FROM services WHERE id = ?
DeleteRowsAffected(id) == IF id \in DOMAIN services THEN 1 ELSE 0

\* the foreign key without its cascade: the versions stay
VersionsAfterDeleteKept(id) == versions

\* fk_versions_service ... ON DELETE CASCADE: the versions of the deleted
\* service go with it
VersionsAfterDelete(id) == versions \ VersionsOf(versions, id)

DeleteService(r, id, o) ==
    /\ Free(r)
    /\ req' = [req EXCEPT ![r] = [op |-> "DeleteService", id |-> id]]
    /\ IF o = "err"
       THEN /\ Answer(r, ErrorResponse(500, "store: delete failed"), 1)
            /\ UNCHANGED <<services, versions>>
       ELSE IF DeleteRowsAffected(id) = 0
       THEN /\ Answer(r, IF o = "ok" THEN ErrorResponse(404, "Service not found")
                                     ELSE ErrorResponse(500, "store: delete failed"), 1)
            /\ UNCHANGED <<services, versions>>
       ELSE /\ ~LockedByOther(r, id)
            /\ services' = [i \in DOMAIN services \ {id} |-> services[i]]
            /\ versions' = VersionsAfterDelete(id)
            /\ IF o = "ok"
               THEN Answer(r, [status |-> 200, message |-> "Service deleted"], 1)
               ELSE Answer(r, ErrorResponse(500, "store: delete failed"), 1)
    /\ UNCHANGED <<now, uuids, tx, calc>>

-----------------------------------------------------------------------------
(* cmd/api/main.go: updateService and deleteService, the handlers that hold *)
(* their own store statements                                                *)

\* rowsAffected, _ := result.RowsAffected(): the error is dropped and the
\* count that comes with it, n, decides the answer
RowsAffectedOrDropped(o, n, rows) == IF o = "noresult" THEN n ELSE rows

updateService(r, id, body, o, n) ==
    /\ Free(r)
    /\ req' = [req EXCEPT ![r] = [op |-> "UpdateService", id |-> id, body |-> body]]
    /\ IF body = Malformed
       THEN /\ Answer(r, ErrorResponse(400, "bind: malformed body"), 0)
            /\ UNCHANGED services
       ELSE IF o = "err"
       THEN /\ Answer(r, ErrorResponse(500, "store: update failed"), 1)
            /\ UNCHANGED services
       ELSE IF id \in DOMAIN services /\ Duplicate(id, body.name, body.slug)
       THEN /\ Answer(r, ErrorResponse(500, "store: duplicate entry"), 1)
            /\ UNCHANGED services
       ELSE /\ id \in DOMAIN services => ~LockedByOther(r, id)
            /\ services' = [i \in DOMAIN services |->
                               IF i = id THEN UpdatedRow(services[i], body)
                               ELSE services[i]]
            /\ IF o = "lost"
               THEN Answer(r, ErrorResponse(500, "store: update failed"), 1)
               ELSE IF RowsAffectedOrDropped(o, n, UpdateRowsAffected(id, body)) = 0
               THEN Answer(r, ErrorResponse(404, "Service not found"), 1)
               ELSE Answer(r, [status |-> 200, entity |-> [body EXCEPT !.id = id]], 1)
    /\ UNCHANGED <<versions, now, uuids, tx, calc>>

deleteService(r, id, o, n) ==
    /\ Free(r)
    /\ req' = [req EXCEPT ![r] = [op |-> "DeleteService", id |-> id]]
    /\ IF o = "err"
       THEN /\ Answer(r, ErrorResponse(500, "store: delete failed"), 1)
            /\ UNCHANGED <<services, versions>>
       ELSE /\ id \in DOMAIN services => ~LockedByOther(r, id)
            /\ services' = [i \in DOMAIN services \ {id} |-> services[i]]
            /\ versions' = VersionsAfterDelete(id)
            /\ IF o = "lost"
               THEN Answer(r, ErrorResponse(500, "store: delete failed"), 1)
               ELSE IF RowsAffectedOrDropped(o, n, DeleteRowsAffected(id)) = 0
               THEN Answer(r, ErrorResponse(404, "Service not found"), 1)
               ELSE Answer(r, [status |-> 200, message |-> "Service deleted"], 1)
    /\ UNCHANGED <<now, uuids, tx, calc>>

-----------------------------------------------------------------------------
(* internal/handlers.CreateVersion + internal/database.CreateVersion *)

\* The transaction's writes stay in tx[r] until COMMIT: the plain SELECTs of
\* the other handlers are consistent reads and see committed rows only.  The
\* INSERT takes a shared lock on the parent services row (the foreign key
\* check), the UPDATE an exclusive one; both are held until the transaction
\* ends.

\* the deferred tx.Rollback(): the transaction ends, its writes are dropped
\* and its locks released
Rollback(r) == tx' = [tx EXCEPT ![r] = NoTx]

\* what the deferred tx.Rollback() returns: nil ("ok"), an error of the
\* store ("failed"; the store drops the transaction with the connection),
\* or sql.ErrTxDone after Commit has been called ("done").  An error is
\* logged.
RollbackOutcomes == {"ok", "failed"}

\* the rollback error taking the place of the step's error
ReturnedErrorOfRollback(stepError, rollback) ==
    IF rollback = "failed" THEN "store: rollback failed" ELSE stepError

\* the error CreateVersion returns when a step fails: the step's error; the
\* error of the deferred Rollback stays in the closure
ReturnedError(stepError, rollback) == stepError

\* the handler answers after CreateVersion has returned and its deferred
\* Rollback has run with outcome rollback
AnswerDeferred(r, response, queries, rollback) ==
    /\ pc'   = [pc   EXCEPT ![r] = "done"]
    /\ resp' = [resp EXCEPT ![r] = response]
    /\ loc'  = [loc  EXCEPT ![r] = [queries |-> queries, rollback |-> rollback]]

\* where tx.Exec of the INSERT puts the new row
TxInsert(r, row) ==
    tx' = [tx EXCEPT ![r].ins = @ \cup {row}, ![r].slock = @ \cup {row.service_id}]

\* the UPDATE matching no row (a wrong id bound to its WHERE)
TxIncrementNoRow(r, id) ==
    tx' = [tx EXCEPT ![r].xlock = @ \cup {id}]

\* where tx.Exec of the UPDATE puts the increment; it touches no row when
\* no services row has the id
TxIncrement(r, id) ==
    tx' = [tx EXCEPT ![r].inc = IF id \in DOMAIN services THEN @ \cup {id} ELSE @,
                     ![r].xlock = @ \cup {id}]

\* the inserted row surviving the failure (no rollback on the error path)
RolledBackVersionsKept(r) == versions \cup tx[r].ins

\* the committed tables after ROLLBACK of the transaction of r: as before
RolledBackServices(r) == services
RolledBackVersions(r) == versions

\* the UPDATE without its WHERE clause: every row is incremented
CommittedServicesNoWhere(r) ==
    [id \in DOMAIN services |->
        IF tx[r].inc # {}
        THEN [services[id] EXCEPT !.versions_count = @ + 1]
        ELSE services[id]]

\* the committed tables after COMMIT of the transaction of r
CommittedServices(r) ==
    [id \in DOMAIN services |->
        IF id \in tx[r].inc
        THEN [services[id] EXCEPT !.versions_count = @ + 1]
        ELSE services[id]]
CommittedVersions(r) == versions \cup tx[r].ins

\* the row INSERT INTO versions (id, service_id, semver, status, changelog)
\* stores
VersionRow(v) ==
    [id |-> v.id, service_id |-> v.service_id, semver |-> v.semver,
     status |-> v.status, changelog |-> v.changelog, created_at |-> now]

\* the handler assigning the id only: the body's service_id stays
AssignedVersionBodyService(body, id) == [body EXCEPT !.id = NewUUID]

\* version.ID = uuid.New().String(); version.ServiceID = serviceID
AssignedVersion(body, id) == [body EXCEPT !.id = NewUUID, !.service_id = id]

\* a deferred Rollback that takes back what Commit has committed
RollbackAfterCommitUndoes(committed, before) == before

\* a table after the deferred tx.Rollback() that follows Commit: the
\* transaction is done, Rollback returns sql.ErrTxDone and the table stays
\* as committed
RollbackAfterCommit(committed, before) == committed

\* handler: bind the body, assign the identifiers, then DB.Begin()
CreateVersion(r, id, body, o) ==
    /\ Free(r)
    /\ req' = [req EXCEPT ![r] = [op |-> "CreateVersion", id |-> id, body |-> body]]
    /\ IF body = Malformed
       THEN /\ Answer(r, ErrorResponse(400, "bind: malformed body"), 0)
            /\ UNCHANGED <<uuids, tx>>
       ELSE /\ uuids < MaxUUID
            /\ uuids' = uuids + 1
            /\ IF o = "ok"
               THEN /\ pc'   = [pc   EXCEPT ![r] = "insert"]
                    /\ loc'  = [loc  EXCEPT ![r] =
                                   [queries |-> 0,
                                    version |-> AssignedVersion(body, id)]]
                    /\ resp' = [resp EXCEPT ![r] = NoResp]
                    /\ tx'   = [tx   EXCEPT ![r].open = TRUE]
               ELSE /\ Answer(r, ErrorResponse(500, "store: begin failed"), 0)
                    /\ UNCHANGED tx
    /\ UNCHANGED <<services, versions, now, calc>>

\* tx.Exec("INSERT INTO versions ...")
CreateVersionInsert(r, o) ==
    /\ pc[r] = "insert"
    /\ LET v == loc[r].version
       IN  IF \/ o # "ok"
              \/ v.service_id \notin DOMAIN services   \* fk_versions_service
              \/ v.status \notin StatusEnum            \* ENUM column, strict mode
           THEN /\ \E ro \in RollbackOutcomes :
                      AnswerDeferred(r, ErrorResponse(500,
                                        ReturnedError("store: insert failed", ro)), 1, ro)
                /\ services' = RolledBackServices(r)
                /\ versions' = RolledBackVersions(r)
                /\ Rollback(r)
           ELSE /\ ~XHeldByOther(r, v.service_id)
                /\ TxInsert(r, VersionRow(v))
                /\ pc' = [pc EXCEPT ![r] = "update"]
                /\ loc' = [loc EXCEPT ![r].queries = 1]
                /\ UNCHANGED <<resp, services, versions>>
    /\ UNCHANGED <<now, uuids, calc, req>>

\* tx.Exec("UPDATE services SET versions_count = versions_count + 1 ...")
CreateVersionUpdate(r, o) ==
    /\ pc[r] = "update"
    /\ IF o # "ok"
       THEN /\ \E ro \in RollbackOutcomes :
                  AnswerDeferred(r, ErrorResponse(500,
                                    ReturnedError("store: update failed", ro)), 2, ro)
            /\ services' = RolledBackServices(r)
            /\ versions' = RolledBackVersions(r)
            /\ Rollback(r)
       ELSE /\ ~LockedByOther(r, loc[r].version.service_id)
            /\ TxIncrement(r, loc[r].version.service_id)
            /\ pc' = [pc EXCEPT ![r] = "commit"]
            /\ loc' = [loc EXCEPT ![r].queries = 2]
            /\ UNCHANGED <<resp, services, versions>>
    /\ UNCHANGED <<now, uuids, calc, req>>

\* tx.Commit(): "ok" commits; "err" fails without committing; "lost" commits
\* on the server, but the driver never sees the acknowledgement and returns
\* an error.  The deferred Rollback then finds the transaction ended.
CreateVersionCommit(r, o) ==
    /\ pc[r] = "commit"
    /\ IF o = "err"
       THEN /\ services' = RolledBackServices(r)
            /\ versions' = RolledBackVersions(r)
       ELSE /\ services' = RollbackAfterCommit(CommittedServices(r), services)
            /\ versions' = RollbackAfterCommit(CommittedVersions(r), versions)
    /\ IF o = "ok"
       THEN AnswerDeferred(r, [status |-> 201, entity |-> loc[r].version], 3, "done")
       ELSE AnswerDeferred(r, ErrorResponse(500,
                                 ReturnedError("store: commit failed", "done")), 3, "done")
    /\ tx' = [tx EXCEPT ![r] = NoTx]
    /\ UNCHANGED <<now, uuids, calc, req>>

\* CURRENT_TIMESTAMP moves on
Tick ==
    /\ now < MaxClock
    /\ now' = now + 1
    /\ UNCHANGED <<services, versions, uuids, pc, req, loc, tx, resp, calc>>

-----------------------------------------------------------------------------------------------------------------------------------------------------
(* The requests the specifications draw from *)

ReadOutcomes  == {"ok", "err"}
WriteOutcomes == {"ok", "err", "lost"}

\* path ids: two seeded services and an id no service has
Paths == {"s2", "s3", "non-existing"}

\* a new service
BillingBody ==
    [id |-> "", name |-> <<"billing">>, slug |-> "billing",
     description |-> <<"invoices">>, versions_count |-> 0]

\* a version as a client posts it, and one whose status is no member of the
\* column's ENUM
ReleaseBody ==
    [id |-> "", service_id |-> "", semver |-> "2.0.0", status |-> "released",
     changelog |-> "Major update"]
BetaBody ==
    [id |-> "v1", service_id |-> "s1", semver |-> "2.0.0", status |-> "beta",
     changelog |-> ""]

\* a version whose body carries the id of a stored version and the id of
\* another service than the path's
ForgedBody ==
    [id |-> "v1", service_id |-> "s1", semver |-> "3.0.0", status |-> "draft",
     changelog |-> "Forged"]

ServiceBodies == {Malformed, BillingBody}
VersionBodies == {Malformed, ReleaseBody, BetaBody}

\* search queries: empty, one that matches a seeded service, one that
\* matches nothing
Queries == {<<>>, <<"money">>, <<"nonexistent">>}

\* the query string ?page_size=1
PageSizeOne == "page_size" :> <<"1">>

\* the slot that serves requests of every kind; the other slots serve
\* version creations only
Client == "r1"
\* the service the other slots create versions for
BusyService == "s3"

-----------------------------------------------------------------------------
(* Spec: a request of any kind next to version-creating transactions *)

\* the store as the migrations leave it, and no request yet
StoreInit ==
    /\ services = SeedServices
    /\ versions = SeedVersions
    /\ now = 0
    /\ uuids = 0
    /\ pc   = [r \in Req |-> "idle"]
    /\ req  = [r \in Req |-> NoReq]
    /\ loc  = [r \in Req |-> NoLoc]
    /\ tx   = [r \in Req |-> NoTx]
    /\ resp = [r \in Req |-> NoResp]

Init == StoreInit /\ calc = NoCalc

Next ==
    \/ \E o \in ReadOutcomes : GetServices(Client, PageSizeOne, o)
    \/ \E o \in ReadOutcomes : GetServicesRows(Client, o)
    \/ \E id \in Paths, o \in ReadOutcomes : GetVersions(Client, id, PageSizeOne, o)
    \/ \E o \in ReadOutcomes : GetVersionsRows(Client, o)
    \/ \E b \in ServiceBodies, o \in WriteOutcomes : CreateService(Client, b, o)
    \/ \E id \in Paths, o \in ReadOutcomes : GetService(Client, id, o)
    \/ \E id \in Paths, b \in ServiceBodies, o \in WriteOutcomes :
          UpdateService(Client, id, b, o)
    \/ \E id \in Paths, o \in WriteOutcomes : DeleteService(Client, id, o)
    \/ \E id \in Paths, b \in VersionBodies, o \in ReadOutcomes :
          CreateVersion(Client, id, b, o)
    \/ \E r \in Req \ {Client}, b \in VersionBodies, o \in ReadOutcomes :
          CreateVersion(r, BusyService, b, o)
    \/ \E r \in Req, o \in ReadOutcomes : CreateVersionInsert(r, o)
    \/ \E r \in Req, o \in ReadOutcomes : CreateVersionUpdate(r, o)
    \/ \E r \in Req, o \in WriteOutcomes : CreateVersionCommit(r, o)
    \/ Tick

Spec == Init /\ [][Next]_vars

-----------------------------------------------------------------------------
(* ListSpec: one request to a list endpoint, over query strings of every   *)
(* shape                                                                   *)

\* 2^63 and a 20-digit number: positive integers no int holds
TwoTo63 == <<"9","2","2","3","3","7","2","0","3","6","8","5","4","7","7","5","8","0","8">>
Nines20 == <<"9","9","9","9","9","9","9","9","9","9","9","9","9","9","9","9","9","9","9","9">>

\* values of a query field, each with what it is: empty, not a number,
\* zero, a negative integer, a positive integer (val), or a positive integer
\* beyond the range of int
QueryValues ==
    { [str |-> <<>>,                kind |-> "empty",      val |-> 0],
      [str |-> <<"a", "b", "c">>,   kind |-> "nonnumeric", val |-> 0],
      [str |-> <<"1", ".", "5">>,   kind |-> "nonnumeric", val |-> 0],
      [str |-> <<"0">>,             kind |-> "zero",       val |-> 0],
      [str |-> <<"-", "3">>,        kind |-> "negative",   val |-> 0 - 3],
      [str |-> <<"1">>,             kind |-> "positive",   val |-> 1],
      [str |-> <<"2">>,             kind |-> "positive",   val |-> 2],
      [str |-> <<"1", "0", "0">>,   kind |-> "positive",   val |-> 100],
      [str |-> <<"1", "0", "1">>,   kind |-> "positive",   val |-> 101],
      [str |-> TwoTo63,             kind |-> "huge",       val |-> 0],
      [str |-> Nines20,             kind |-> "huge",       val |-> 0] }

QueryStrs == {v.str : v \in QueryValues}

\* what the value of key in a query string is, by the table above; "absent"
\* when the query string does not carry the key
KindOf(query, key) ==
    IF key \notin DOMAIN query THEN "absent"
    ELSE (CHOOSE v \in QueryValues : v.str = query[key]).kind
ValOf(query, key) == (CHOOSE v \in QueryValues : v.str = query[key]).val

\* the query strings over page and page_size, and those of a search
PageQueries == UNION {[K -> QueryStrs] : K \in SUBSET {"page", "page_size"}}
SearchQueries == PageQueries \cup {("q" :> q) @@ f : q \in Queries, f \in PageQueries}

ListNext ==
    \/ \E query \in PageQueries, o \in ReadOutcomes :
          pc[Client] = "idle" /\ GetServices(Client, query, o)
    \/ \E o \in ReadOutcomes : GetServicesRows(Client, o)
    \/ \E query \in SearchQueries, o \in ReadOutcomes :
          pc[Client] = "idle" /\ SearchServices(Client, query, o)
    \/ \E o \in ReadOutcomes : SearchServicesRows(Client, o)
    \/ \E id \in Paths, query \in PageQueries, o \in ReadOutcomes :
          pc[Client] = "idle" /\ GetVersions(Client, id, query, o)
    \/ \E o \in ReadOutcomes : GetVersionsRows(Client, o)

ListSpec == Init /\ [][ListNext]_vars

-----------------------------------------------------------------------------
(* SeqSpec: one client, its requests one after another, over bodies that   *)
(* repeat stored names and slugs, repeat a stored row, or carry the fields *)
(* the server assigns                                                      *)

\* a new service whose body carries an id and a versions_count
LedgerBody ==
    [id |-> "s1", name |-> <<"ledger">>, slug |-> "ledger",
     description |-> <<"accounts">>, versions_count |-> 5]
\* the name, slug and description the seed stores for s2
CollectBody ==
    [id |-> "", name |-> <<"collect", "money">>, slug |-> "collect-money",
     description |-> <<"payments", "collection">>, versions_count |-> 0]
\* the name of s3 with a slug of its own, and the slug of s2 with a name of
\* its own
AlertsBody ==
    [id |-> "", name |-> <<"notifications">>, slug |-> "alerts",
     description |-> <<"send", "alerts">>, versions_count |-> 0]
PaymentsBody ==
    [id |-> "", name |-> <<"payments">>, slug |-> "collect-money",
     description |-> <<"cards">>, versions_count |-> 0]

SeqServiceBodies == {Malformed, LedgerBody, CollectBody, AlertsBody, PaymentsBody}
SeqVersionBodies == {Malformed, ReleaseBody}

\* path ids: the seeded s2, the first id uuid.New() hands out, and an id no
\* service has
SeqPaths == {"s2", UUIDNames[1], "non-existing"}

\* the query string ?page_size=101
PageSize101 == "page_size" :> <<"1", "0", "1">>
SeqPageQueries == {PageSizeOne, PageSize101}
SeqSearchQueries ==
    {PageSizeOne, ("q" :> <<"money">>) @@ PageSizeOne, ("q" :> <<"money">>) @@ PageSize101}

SeqNext ==
    \/ \E query \in SeqPageQueries, o \in ReadOutcomes : GetServices(Client, query, o)
    \/ \E o \in ReadOutcomes : GetServicesRows(Client, o)
    \/ \E query \in SeqSearchQueries, o \in ReadOutcomes : SearchServices(Client, query, o)
    \/ \E o \in ReadOutcomes : SearchServicesRows(Client, o)
    \/ \E id \in SeqPaths, query \in SeqPageQueries, o \in ReadOutcomes :
          GetVersions(Client, id, query, o)
    \/ \E o \in ReadOutcomes : GetVersionsRows(Client, o)
    \/ \E b \in SeqServiceBodies, o \in WriteOutcomes : CreateService(Client, b, o)
    \/ \E id \in SeqPaths, o \in ReadOutcomes : GetService(Client, id, o)
    \/ \E id \in SeqPaths, b \in SeqServiceBodies, o \in WriteOutcomes :
          UpdateService(Client, id, b, o)
    \/ \E id \in SeqPaths, o \in WriteOutcomes : DeleteService(Client, id, o)
    \/ \E id \in SeqPaths, b \in SeqVersionBodies, o \in ReadOutcomes :
          CreateVersion(Client, id, b, o)
    \/ \E o \in ReadOutcomes : CreateVersionInsert(Client, o)
    \/ \E o \in ReadOutcomes : CreateVersionUpdate(Client, o)
    \/ \E o \in WriteOutcomes : CreateVersionCommit(Client, o)
    \/ Tick

SeqSpec == Init /\ [][SeqNext]_vars

-----------------------------------------------------------------------------
(* LockSpec: version-creating transactions of both slots on one service,   *)
(* next to reads, an update and a delete of that service                   *)

LockNext ==
    \/ \E o \in ReadOutcomes : GetService(Client, BusyService, o)
    \/ \E o \in ReadOutcomes : GetVersions(Client, BusyService, PageSizeOne, o)
    \/ \E o \in ReadOutcomes : GetVersionsRows(Client, o)
    \/ \E o \in WriteOutcomes : UpdateService(Client, BusyService, BillingBody, o)
    \/ \E o \in WriteOutcomes : DeleteService(Client, BusyService, o)
    \/ \E r \in Req, o \in ReadOutcomes : CreateVersion(r, BusyService, ReleaseBody, o)
    \/ \E r \in Req, o \in ReadOutcomes : CreateVersionInsert(r, o)
    \/ \E r \in Req, o \in ReadOutcomes : CreateVersionUpdate(r, o)
    \/ \E r \in Req, o \in WriteOutcomes : CreateVersionCommit(r, o)

LockSpec == Init /\ [][LockNext]_vars

-----------------------------------------------------------------------------
(* IdSpec: creations whose bodies carry identifiers of their own *)

IdNext ==
    \/ \E b \in {LedgerBody, BillingBody}, o \in WriteOutcomes : CreateService(Client, b, o)
    \/ \E r \in Req, id \in {"s2", BusyService}, b \in {ForgedBody, ReleaseBody},
          o \in ReadOutcomes : CreateVersion(r, id, b, o)
    \/ \E r \in Req, o \in ReadOutcomes : CreateVersionInsert(r, o)
    \/ \E r \in Req, o \in ReadOutcomes : CreateVersionUpdate(r, o)
    \/ \E r \in Req, o \in WriteOutcomes : CreateVersionCommit(r, o)
    \/ Tick

IdSpec == Init /\ [][IdNext]_vars

-----------------------------------------------------------------------------
(* WideSpec: one list request at a time, over pages up to the largest int *)

\* 2^62 + 1 and 2^63 - 1, the largest int
TwoTo62Plus1 == <<"4","6","1","1","6","8","6","0","1","8","4","2","7","3","8","7","9","0","5">>
MaxInt == <<"9","2","2","3","3","7","2","0","3","6","8","5","4","7","7","5","8","0","7">>

WidePages == {<<"2">>, TwoTo62Plus1, MaxInt}
WideSizes == {<<"1">>, <<"1", "0", "0">>}

\* the query strings ?page=..., with and without a page_size
WideQueries ==
    {"page" :> p : p \in WidePages}
      \cup {("page" :> p) @@ ("page_size" :> ps) : p \in WidePages, ps \in WideSizes}

WideNext ==
    \/ \E query \in WideQueries, o \in ReadOutcomes : GetServices(Client, query, o)
    \/ \E o \in ReadOutcomes : GetServicesRows(Client, o)
    \/ \E query \in WideQueries, o \in ReadOutcomes :
          SearchServices(Client, ("q" :> <<"money">>) @@ query, o)
    \/ \E o \in ReadOutcomes : SearchServicesRows(Client, o)
    \/ \E id \in Paths, query \in WideQueries, o \in ReadOutcomes :
          GetVersions(Client, id, query, o)
    \/ \E o \in ReadOutcomes : GetVersionsRows(Client, o)

WideSpec == Init /\ [][WideNext]_vars

-----------------------------------------------------------------------------
(* RaceSpec: list requests of one slot next to the writes of the other *)

\* the slot that writes
Writer == "r2"

\* a query string without page and page_size, and a search with one
NoQuery == <<>>
MoneyQuery == "q" :> <<"money">>

RaceNext ==
    \/ \E o \in ReadOutcomes : GetServices(Client, NoQuery, o)
    \/ \E o \in ReadOutcomes : GetServicesRows(Client, o)
    \/ \E o \in ReadOutcomes : SearchServices(Client, MoneyQuery, o)
    \/ \E o \in ReadOutcomes : SearchServicesRows(Client, o)
    \/ \E o \in ReadOutcomes : GetVersions(Client, BusyService, NoQuery, o)
    \/ \E o \in ReadOutcomes : GetVersionsRows(Client, o)
    \/ \E o \in WriteOutcomes : CreateService(Writer, BillingBody, o)
    \/ \E id \in {"s2", BusyService}, o \in WriteOutcomes : DeleteService(Writer, id, o)
    \/ \E o \in ReadOutcomes : CreateVersion(Writer, BusyService, ReleaseBody, o)
    \/ \E o \in ReadOutcomes : CreateVersionInsert(Writer, o)
    \/ \E o \in ReadOutcomes : CreateVersionUpdate(Writer, o)
    \/ \E o \in WriteOutcomes : CreateVersionCommit(Writer, o)

RaceSpec == Init /\ [][RaceNext]_vars

-----------------------------------------------------------------------------
(* PagesSpec: the pages of one listing, each requested by a slot of its    *)
(* own, over a store nothing writes to                                     *)

\* the query string ?page=n&page_size=size, for single digits
PageQuery(n, size) == ("page" :> <<n>>) @@ ("page_size" :> <<size>>)

\* the page each slot requests
PageOfSlot == ("r1" :> "1") @@ ("r2" :> "2")

PagesNext ==
    \/ \E r \in Req, o \in ReadOutcomes : GetServices(r, PageQuery(PageOfSlot[r], "2"), o)
    \/ \E r \in Req, o \in ReadOutcomes : GetServicesRows(r, o)
    \/ \E r \in Req, o \in ReadOutcomes :
          GetVersions(r, BusyService, PageQuery(PageOfSlot[r], "1"), o)
    \/ \E r \in Req, o \in ReadOutcomes : GetVersionsRows(r, o)

PagesSpec == Init /\ [][PagesNext]_vars

-----------------------------------------------------------------------------
(* MonoSpec: one client, its updates and deletes served by the handlers of *)
(* internal/handlers or by those of cmd/api/main.go                        *)

ResultOutcomes == WriteOutcomes \cup {"noresult"}

\* the counts Result.RowsAffected() can hand over together with an error
RowsWithError == {0, 1}

MonoBodies == {BillingBody, LedgerBody, Malformed}

MonoNext ==
    \/ \E id \in Paths, b \in MonoBodies, o \in ResultOutcomes :
          UpdateService(Client, id, b, o)
    \/ \E id \in Paths, o \in ResultOutcomes : DeleteService(Client, id, o)
    \/ \E id \in Paths, b \in MonoBodies, o \in ResultOutcomes, n \in RowsWithError :
          updateService(Client, id, b, o, n)
    \/ \E id \in Paths, o \in ResultOutcomes, n \in RowsWithError :
          deleteService(Client, id, o, n)

MonoSpec == Init /\ [][MonoNext]_vars

-----------------------------------------------------------------------------
(* ParamSpec: GetPaginationParams and GetSearchParams on their own *)

ParamInit ==
    /\ StoreInit
    /\ \E query \in SearchQueries :
          calc = [fn |-> "params", query |-> query, done |-> FALSE]

ExtractParams ==
    /\ calc.fn = "params" /\ ~calc.done
    /\ calc' = [calc EXCEPT !.done = TRUE] @@
               [pagination |-> GetPaginationParams(calc.query),
                search     |-> GetSearchParams(calc.query)]
    /\ UNCHANGED <<services, versions, now, uuids, pc, req, loc, tx, resp>>

ParamSpec == ParamInit /\ [][ExtractParams]_vars

-----------------------------------------------------------------------------
(* PagSpec: CalculatePagination on its own, on the (page, pageSize, total) *)
(* the handlers can hand it: page >= 1, pageSize >= 1, total >= 0          *)

PagInit ==
    /\ StoreInit
    /\ \E p \in 1..MaxPage, ps \in (1..MaxPage) \cup {DefaultPageSize},
          t \in (0..MaxTotal) \cup {10, 25} :
          calc = [fn |-> "pagination", page |-> p, pageSize |-> ps, total |-> t,
                  done |-> FALSE]

Calculate ==
    /\ calc.fn = "pagination" /\ ~calc.done
    /\ calc' = [calc EXCEPT !.done = TRUE] @@
               [out |-> CalculatePagination(I64(calc.page), calc.pageSize, calc.total)]
    /\ UNCHANGED <<services, versions, now, uuids, pc, req, loc, tx, resp>>

PagSpec == PagInit /\ [][Calculate]_vars

-----------------------------------------------------------------------------
(* The claims *)

\* C1: in every committed state of the store, each stored service's
\* versions_count is the number of versions rows whose service_id is its id.
CountsMatch ==
    \A id \in DOMAIN services :
        services[id].versions_count = Cardinality(VersionsOf(versions, id))

\* two versions have been added to the busy service and a seeded service
\* with a version has been deleted
CountsMatchWitness ==
    /\ BusyService \in DOMAIN services
    /\ services[BusyService].versions_count = 4
    /\ "s2" \notin DOMAIN services

\* the step in which the handler of r answers with status
Answers(r, op, status) ==
    /\ pc[r] # "done" \/ req'[r] # req[r] \/ resp'[r] # resp[r]
    /\ pc'[r] = "done"
    /\ req'[r].op = op
    /\ resp'[r].status = status

\* C2: the step in which a CreateVersion for an existing service S answers
\* 201 adds exactly one versions row, with service_id = S, raises
\* S.versions_count by exactly 1, and changes no other services row and no
\* other versions row.
CreateVersionAddsOne ==
    [][ \A r \in Req :
          (Answers(r, "CreateVersion", 201) /\ req[r].id \in DOMAIN services) =>
             /\ Cardinality(versions' \ versions) = 1
             /\ versions \subseteq versions'
             /\ \A v \in versions' \ versions : v.service_id = req[r].id
             /\ DOMAIN services' = DOMAIN services
             /\ services'[req[r].id] =
                   [services[req[r].id] EXCEPT !.versions_count = @ + 1]
             /\ \A id \in DOMAIN services \ {req[r].id} : services'[id] = services[id]
      ]_vars

\* both slots have created a version for the busy service
CreateVersionAddsOneWitness ==
    \A r \in Req :
        /\ pc[r] = "done" /\ req[r].op = "CreateVersion" /\ resp[r].status = 201
        /\ req[r].id = BusyService

\* C3: what a request reads while version-creating transactions are in
\* progress never holds a new versions row without the increment or the
\* increment without the row: the versions_count a GetService or GetServices
\* returns is the number of versions rows a read at that moment finds, and
\* the total GetVersions counts is the versions_count of the service.
ReadsSeeBothOrNeither ==
    [][ \A r \in Req :
          /\ Answers(r, "GetService", 200) =>
                resp'[r].entity.versions_count
                   = Cardinality(VersionsOf(ReadVersions, req'[r].id))
          /\ Answers(r, "GetServices", 200) =>
                \A i \in 1..Len(resp'[r].data) :
                    resp'[r].data[i].versions_count
                       = Cardinality(VersionsOf(ReadVersions, resp'[r].data[i].id))
          /\ (Free(r) /\ pc'[r] = "rows" /\ req'[r].op = "GetVersions"
                /\ req'[r].id \in DOMAIN services) =>
                loc'[r].total = services[req'[r].id].versions_count
      ]_vars

\* a GetVersions of the busy service has counted its rows and a transaction
\* on that service holds both of its writes, uncommitted
ReadsSeeBothOrNeitherWitness ==
    /\ pc[Client] = "rows" /\ req[Client].op = "GetVersions"
    /\ req[Client].id = BusyService
    /\ \E r \in Req \ {Client} :
          /\ pc[r] = "commit" /\ tx[r].ins # {} /\ tx[r].inc = {BusyService}
          /\ loc[Client].total = services[BusyService].versions_count

\* C4 as claimed: the step in which a CreateVersion answers 500, whichever
\* of begin, insert, update and commit failed, leaves the services and
\* versions tables as they were.
CreateVersionFailureLeavesStore ==
    [][ \A r \in Req :
          Answers(r, "CreateVersion", 500) =>
             services' = services /\ versions' = versions
      ]_vars

\* C4, amended: a CreateVersion that answers 500 because begin, the insert
\* or the update failed leaves both tables as they were; one that answers
\* 500 because Commit returned an error leaves them as they were or with
\* both of its writes, never with one of the two.
CreateVersionFailureAtomic ==
    [][ \A r \in Req :
          Answers(r, "CreateVersion", 500) =>
             \/ services' = services /\ versions' = versions
             \/ /\ resp'[r].error = "store: commit failed"
                /\ Cardinality(versions' \ versions) = 1
                /\ versions \subseteq versions'
                /\ \A v \in versions' \ versions : v.service_id = req[r].id
                /\ req[r].id \in DOMAIN services
                /\ services' = [services EXCEPT
                                   ![req[r].id].versions_count = @ + 1]
      ]_vars

\* a CreateVersion whose counter update failed after its insert had been
\* executed has answered 500, and the version it carried is not stored
CreateVersionFailureWitness ==
    \E r \in Req :
        /\ pc[r] = "done" /\ req[r].op = "CreateVersion"
        /\ resp[r].status = 500 /\ resp[r].error = "store: update failed"
        /\ loc[r].queries = 2
        /\ versions = SeedVersions

HasNextHasPrev ==
    (calc.fn = "pagination" /\ calc.done) =>
        /\ calc.out.HasNext <=> (calc.page < calc.out.TotalPages)
        /\ calc.out.HasPrev <=> (calc.page > 1)
        /\ calc.out.Page = I64(calc.page)
        /\ calc.out.PageSize = calc.pageSize
        /\ calc.out.Total = calc.total
        /\ (calc.total = 0) => ~calc.out.HasNext

\* the last of the 3 pages of 25 rows: a previous page and no next one
HasNextHasPrevWitness ==
    /\ calc.fn = "pagination" /\ calc.done
    /\ calc.total = 25 /\ calc.pageSize = 10 /\ calc.page = 3
    /\ ~calc.out.HasNext /\ calc.out.HasPrev

\* the value a present positive integer written str has, as decimal digits
StrDigits(str) == [i \in 1..Len(str) |-> DigitVal(str[i])]
RECURSIVE Decimal(_)
Decimal(n) == IF n < 10 THEN <<n>> ELSE Append(Decimal(n \div 10), n % 10)

\* C7 as claimed: page and page_size are taken independently; a value
\* that is absent, not a number, zero or negative yields the default, and
\* every present positive integer is returned verbatim.
ExtractionVerbatim ==
    (calc.fn = "params" /\ calc.done) =>
        \A key \in {"page", "page_size"} :
            LET got == IF key = "page" THEN <<calc.pagination.Page, calc.search.Page>>
                       ELSE <<calc.pagination.PageSize, calc.search.PageSize>>
                default == IF key = "page" THEN 1 ELSE 10
            IN  \A i \in 1..2 :
                    IF KindOf(calc.query, key) \in {"positive", "huge"}
                    THEN IsSmall(got[i]) /\ Decimal(Small(got[i])) = StrDigits(calc.query[key])
                    ELSE got[i] = I64(default)

\* C7, amended: page and page_size are taken independently; a value that
\* is absent, empty, not a number, zero, negative or a positive integer
\* beyond the range of int yields the default (page 1, page_size 10), a
\* positive integer an int holds is returned verbatim, the search query is
\* returned as sent, and extraction succeeds on every input.
ExtractionDefaults ==
    /\ (calc.fn = "params" /\ ~calc.done) => ENABLED ExtractParams
    /\ (calc.fn = "params" /\ calc.done) =>
          /\ \A key \in {"page", "page_size"} :
                LET got == IF key = "page"
                           THEN <<calc.pagination.Page, calc.search.Page>>
                           ELSE <<calc.pagination.PageSize, calc.search.PageSize>>
                    default == IF key = "page" THEN 1 ELSE 10
                IN  \A i \in 1..2 :
                        IF KindOf(calc.query, key) = "positive"
                        THEN got[i] = I64(ValOf(calc.query, key))
                        ELSE got[i] = I64(default)
          /\ calc.search.Query = IF "q" \in DOMAIN calc.query THEN calc.query["q"]
                                 ELSE <<>>

\* a page beyond the range of int next to page_size=101: page falls back
\* to 1 and page_size is 101
ExtractionWitness ==
    /\ calc.fn = "params" /\ calc.done
    /\ KindOf(calc.query, "page") = "huge"
    /\ KindOf(calc.query, "page_size") = "positive"
    /\ calc.pagination = [Page |-> I64(1), PageSize |-> I64(101)]
    /\ calc.search.Page = I64(1) /\ calc.search.PageSize = I64(101)

\* the list endpoints, a search counting only with a query
ListOps == {"GetServices", "SearchServices", "GetVersions"}
IsListRequest(r) ==
    /\ req[r].op \in ListOps
    /\ req[r].op = "SearchServices" => Query(req[r].query, "q") # <<>>

\* the request of r is answered 400 and has issued no store statement, and
\* the tables are as seeded
RejectedUnread(r) ==
    /\ pc[r] = "done" /\ resp[r].status = 400
    /\ loc[r].queries = 0
    /\ services = SeedServices /\ versions = SeedVersions

\* C8 as claimed: a list request whose page_size is greater than 100 is
\* answered 400 without the store being read or modified.
PageSizeOver100Rejected ==
    \A r \in Req :
        ( /\ IsListRequest(r)
          /\ \/ KindOf(req[r].query, "page_size") = "huge"
             \/ /\ KindOf(req[r].query, "page_size") = "positive"
                /\ ValOf(req[r].query, "page_size") > 100 )
        => RejectedUnread(r)

\* C8, amended: a list request whose page_size is an integer greater than
\* 100 that an int holds is answered 400 without the store being read or
\* modified.
PageSizeOver100IntRejected ==
    \A r \in Req :
        ( /\ IsListRequest(r)
          /\ KindOf(req[r].query, "page_size") = "positive"
          /\ ValOf(req[r].query, "page_size") > 100 )
        => RejectedUnread(r)

\* a search with a query and page_size=101 has been answered 400
PageSizeOver100Witness ==
    /\ req[Client].op = "SearchServices"
    /\ Query(req[Client].query, "q") = <<"money">>
    /\ Query(req[Client].query, "page_size") = <<"1", "0", "1">>
    /\ resp[Client] = ErrorResponse(400, "page_size must be between 1 and 100")

\* C9: a list request with page_size=0 is answered 400.
PageSizeZeroRejected ==
    \A r \in Req :
        (req[r].op \in ListOps /\ Query(req[r].query, "page_size") = <<"0">>)
        => (pc[r] = "done" /\ resp[r].status = 400)

\* C10: SearchServices answers 400, for the missing query, whenever q is
\* absent or empty, whatever page and page_size are, and issues no store
\* statement.
SearchNeedsQuery ==
    \A r \in Req :
        (req[r].op = "SearchServices" /\ Query(req[r].query, "q") = <<>>)
        => /\ pc[r] = "done"
           /\ resp[r] = ErrorResponse(400, "search query 'q' is required")
           /\ loc[r].queries = 0

\* a search without q and with page_size=101 has been answered 400 for the
\* missing query
SearchNeedsQueryWitness ==
    /\ req[Client].op = "SearchServices"
    /\ "q" \notin DOMAIN req[Client].query
    /\ Query(req[Client].query, "page_size") = <<"1", "0", "1">>
    /\ resp[Client] = ErrorResponse(400, "search query 'q' is required")

\* C11: a SearchServices with a non-empty q that matches no service, when it
\* answers 200, carries data as an empty array and not as null, with total
\* 0, total_pages 0 and has_next false.
SearchNoMatchEmptyArray ==
    \A r \in Req :
        ( /\ pc[r] = "done" /\ req[r].op = "SearchServices"
          /\ resp[r].status = 200
          /\ \A id \in DOMAIN services : ~Matches(Query(req[r].query, "q"), id) )
        => /\ resp[r].data = <<>> /\ ~resp[r].null
           /\ resp[r].pagination.Total = 0
           /\ resp[r].pagination.TotalPages = 0
           /\ ~resp[r].pagination.HasNext

\* the last request of r was op on path id and has been answered
Answered(r, op, id) ==
    pc[r] = "done" /\ req[r].op = op /\ req[r].id = id

\* C12: a DeleteService answered 404 found no service with the path id and
\* changed nothing; one answered 200 found the service and removed it (its
\* versions with it, every other service kept); DeleteService never answers
\* 200 for an absent id nor 404 for a stored one; and after a DeleteService
\* answered 200 for an id, every later GetService for that id that the
\* store serves answers 404, none answers 200.
DeleteThenNotFound ==
    /\ [][ \A r \in Req :
             /\ Answers(r, "DeleteService", 404) =>
                   /\ req'[r].id \notin DOMAIN services
                   /\ services' = services /\ versions' = versions
             /\ Answers(r, "DeleteService", 200) =>
                   /\ req'[r].id \in DOMAIN services
                   /\ DOMAIN services' = DOMAIN services \ {req'[r].id}
                   /\ \A i \in DOMAIN services' : services'[i] = services[i]
                   /\ versions' = versions \ VersionsOf(versions, req'[r].id)
         ]_vars
    /\ \A id \in SeqPaths, d \in Req :
          [](( Answered(d, "DeleteService", id) /\ resp[d].status = 200 ) =>
               [](\A r \in Req :
                     Answered(r, "GetService", id) =>
                        \/ resp[r] = ErrorResponse(404, "Service not found")
                        \/ resp[r] = ErrorResponse(500, "store: select failed")))

\* GetService for s2 has answered 404 after s2 was removed
DeleteThenNotFoundWitness ==
    /\ Answered(Client, "GetService", "s2")
    /\ resp[Client].status = 404
    /\ "s2" \notin DOMAIN services
    /\ VersionsOf(versions, "s2") = {}

\* C13: when a CreateService has answered 201 and the GetService that
\* follows it immediately, on the id the 201 returned, answers 200, the two
\* entities agree on name, slug, description and versions_count, and the id
\* is non-empty in both.
CreateThenGetAgree ==
    [][ \A r \in Req :
          ( /\ pc[r] = "done" /\ req[r].op = "CreateService"
            /\ resp[r].status = 201
            /\ Answers(r, "GetService", 200)
            /\ req'[r].id = resp[r].entity.id )
          => /\ resp[r].entity.id # "" /\ resp'[r].entity.id # ""
             /\ resp'[r].entity.name = resp[r].entity.name
             /\ resp'[r].entity.slug = resp[r].entity.slug
             /\ resp'[r].entity.description = resp[r].entity.description
             /\ resp'[r].entity.versions_count = resp[r].entity.versions_count
      ]_vars

\* C14: the INSERT of a CreateVersion whose path id matches no stored
\* service is accepted by a working store (the request goes on to the
\* counter update and to 201, the row persisted).
CreateVersionNoParentAccepted ==
    \A r \in Req :
        ( /\ pc[r] = "insert"
          /\ loc[r].version.service_id \notin DOMAIN services
          /\ loc[r].version.status \in StatusEnum )
        => ENABLED (CreateVersionInsert(r, "ok") /\ pc'[r] = "update")

\* C15: an UpdateService is answered 404 only when no stored service has
\* the path id; a PUT to a stored id whose body equals the stored name, slug
\* and description is not answered 404.
UpdateNotFoundOnlyWhenAbsent ==
    [][ \A r \in Req :
          Answers(r, "UpdateService", 404) => req'[r].id \notin DOMAIN services
      ]_vars

\* C16: an UpdateService answered 200 on path id P has set the stored name,
\* slug and description of P to the body's values and left P's
\* versions_count and created_at, the set of stored ids, every other service
\* and every version row as they were; the id in the body is ignored and
\* the response carries id = P.
UpdateReplacesThreeFields ==
    [][ \A r \in Req :
          Answers(r, "UpdateService", 200) =>
             LET P == req'[r].id
                 b == req'[r].body
             IN  /\ P \in DOMAIN services
                 /\ DOMAIN services' = DOMAIN services
                 /\ services'[P] = [services[P] EXCEPT !.name = b.name,
                                                       !.slug = b.slug,
                                                       !.description = b.description]
                 /\ \A i \in DOMAIN services \ {P} : services'[i] = services[i]
                 /\ versions' = versions
                 /\ resp'[r].entity.id = P
      ]_vars

\* s2 updated with a body that carries another id and a count: the
\* response carries s2, the stored count is still 1
UpdateReplacesWitness ==
    /\ Answered(Client, "UpdateService", "s2")
    /\ req[Client].body = LedgerBody
    /\ resp[Client].status = 200 /\ resp[Client].entity.id = "s2"
    /\ services["s2"].name = <<"ledger">>
    /\ services["s2"].versions_count = 1

\* the step in which r answers a request op, whatever the answer
Returns(r, op) ==
    /\ pc'[r] = "done" /\ req'[r].op = op
    /\ pc[r] # "done" \/ req'[r] # req[r] \/ resp'[r] # resp[r] \/ uuids' # uuids

\* another stored service than id has the name or the slug of body
Clashes(id, body) ==
    \E o \in DOMAIN services \ {id} :
        services[o].name = body.name \/ services[o].slug = body.slug

\* C17: no two stored services share a name and no two share a slug; a
\* CreateService, or an UpdateService of a stored service, whose body has
\* the name or the slug of another stored service is answered 500 and
\* leaves the services table as it was.
NamesAndSlugsUnique ==
    /\ [](\A a \in DOMAIN services : \A b \in DOMAIN services \ {a} :
             services[a].name # services[b].name /\ services[a].slug # services[b].slug)
    /\ [][ \A r \in Req :
             /\ ( /\ Returns(r, "CreateService")
                  /\ req'[r].body # Malformed
                  /\ Clashes("", req'[r].body) )
                => resp'[r].status = 500 /\ services' = services /\ versions' = versions
             /\ ( /\ Returns(r, "UpdateService")
                  /\ req'[r].body # Malformed
                  /\ req'[r].id \in DOMAIN services
                  /\ Clashes(req'[r].id, req'[r].body) )
                => resp'[r].status = 500 /\ services' = services /\ versions' = versions
         ]_vars

\* the created service u1 was to take the slug of s2 and the update was
\* answered 500
NamesAndSlugsWitness ==
    /\ Answered(Client, "UpdateService", "u1")
    /\ req[Client].body = PaymentsBody
    /\ resp[Client] = ErrorResponse(500, "store: duplicate entry")
    /\ {"u1", "s2"} \subseteq DOMAIN services
    /\ services["s2"].slug = PaymentsBody.slug
    /\ services["u1"].slug # PaymentsBody.slug

\* the requests that read only
GetOps == {"GetServices", "SearchServices", "GetVersions", "GetService"}

\* C18: the step in which a request is answered 400 (out-of-range
\* pagination, missing search query, malformed body of CreateService,
\* UpdateService or CreateVersion) leaves the services and versions tables
\* as they were, and so does every step of a GET request, whatever it
\* answers.
ValidationAndReadsChangeNothing ==
    [][ \A r \in Req :
          /\ ( /\ pc'[r] = "done" /\ resp'[r].status = 400
               /\ pc[r] # "done" \/ req'[r] # req[r] \/ resp'[r] # resp[r] )
             => services' = services /\ versions' = versions
          /\ ( /\ req'[r].op \in GetOps
               /\ pc'[r] # pc[r] \/ req'[r] # req[r] \/ resp'[r] # resp[r]
                    \/ loc'[r] # loc[r] )
             => services' = services /\ versions' = versions
      ]_vars

\* an UpdateService of s2 with a malformed body has been answered 400 and
\* s2 is as seeded
ValidationWitness ==
    /\ Answered(Client, "UpdateService", "s2")
    /\ req[Client].body = Malformed
    /\ resp[Client].status = 400
    /\ services["s2"] = SeedServices["s2"]

\* another transaction than r's has incremented the service id / has
\* inserted a version for it, and has not ended
IncrementedByOther(r, id) == \E o \in Req \ {r} : id \in tx[o].xlock
ReferencedByOther(r, id) == \E o \in Req \ {r} : id \in tx[o].slock

\* the next store statement of the CreateVersion of r can run to success
CanInsert(r) == ENABLED (CreateVersionInsert(r, "ok") /\ pc'[r] = "update")
CanUpdate(r) == ENABLED (CreateVersionUpdate(r, "ok") /\ pc'[r] = "commit")
CanCommit(r) == ENABLED CreateVersionCommit(r, "ok")

\* the version r is about to insert passes the foreign key and the ENUM
Insertable(r) ==
    /\ loc[r].version.service_id \in DOMAIN services
    /\ loc[r].version.status \in StatusEnum

\* C19 as claimed: no request waits for another: whatever the other
\* requests have done, the next store statement of a CreateVersion can run,
\* and an UpdateService or DeleteService of a stored service can run.
NoRequestWaits ==
    \A r \in Req :
        /\ (pc[r] = "insert" /\ Insertable(r)) => CanInsert(r)
        /\ pc[r] = "update" => CanUpdate(r)
        /\ pc[r] = "commit" => CanCommit(r)
        /\ (r = Client /\ Free(r) /\ BusyService \in DOMAIN services) =>
              /\ ENABLED UpdateService(r, BusyService, BillingBody, "ok")
              /\ ENABLED DeleteService(r, BusyService, "ok")

\* C19, amended: a request waits only for a row lock on the services row it
\* writes, held by a CreateVersion transaction of another request that has
\* not ended: the version insert runs unless another has incremented the
\* service, the counter update, UpdateService and DeleteService run unless
\* another has inserted a version for the service or incremented it, commit
\* and the reads always run; and a request that waits is never stuck, its
\* statement can end with an error.
RequestsWaitOnlyForRowLocks ==
    \A r \in Req :
        /\ pc[r] = "insert" =>
              /\ ENABLED (\E o \in ReadOutcomes : CreateVersionInsert(r, o))
              /\ ( Insertable(r)
                   /\ ~IncrementedByOther(r, loc[r].version.service_id) ) => CanInsert(r)
        /\ pc[r] = "update" =>
              /\ ENABLED (\E o \in ReadOutcomes : CreateVersionUpdate(r, o))
              /\ ( /\ ~IncrementedByOther(r, loc[r].version.service_id)
                   /\ ~ReferencedByOther(r, loc[r].version.service_id) ) => CanUpdate(r)
        /\ pc[r] = "commit" => CanCommit(r)
        /\ (r = Client /\ pc[r] = "rows") => ENABLED GetVersionsRows(r, "ok")
        /\ (r = Client /\ Free(r)) =>
              /\ ENABLED GetService(r, BusyService, "ok")
              /\ ENABLED GetVersions(r, BusyService, PageSizeOne, "ok")
              /\ ENABLED UpdateService(r, BusyService, BillingBody, "err")
              /\ ENABLED DeleteService(r, BusyService, "err")
              /\ ( /\ ~IncrementedByOther(r, BusyService)
                   /\ ~ReferencedByOther(r, BusyService) ) =>
                    /\ ENABLED UpdateService(r, BusyService, BillingBody, "ok")
                    /\ ENABLED DeleteService(r, BusyService, "ok")

\* two CreateVersion transactions on one service have both inserted: the
\* counter update of each waits for the other
RequestsWaitWitness ==
    /\ \A r \in Req : pc[r] = "update" /\ BusyService \in tx[r].slock
    /\ \A r \in Req : ~CanUpdate(r)

\* the error of the step at which the CreateVersion of a slot stands
StepError(at) ==
    CASE at = "insert" -> "store: insert failed"
      [] at = "update" -> "store: update failed"
      [] at = "commit" -> "store: commit failed"

\* C20: when a CreateVersion fails after its transaction has begun (at the
\* insert, the update or the commit), the deferred Rollback has run before
\* the handler answers and the transaction is ended, and the 500 carries the
\* error of the failing step, also when the Rollback itself returned an
\* error, which is only logged.
RollbackErrorOnlyLogged ==
    [][ \A r \in Req :
          ( /\ pc[r] \in {"insert", "update", "commit"}
            /\ Answers(r, "CreateVersion", 500) )
          => /\ loc'[r].rollback \in RollbackOutcomes \cup {"done"}
             /\ tx'[r] = NoTx
             /\ resp'[r] = ErrorResponse(500, StepError(pc[r]))
      ]_vars

\* the counter update failed, the Rollback failed too, and the answer
\* carries the update's error
RollbackErrorWitness ==
    \E r \in Req :
        /\ pc[r] = "done" /\ req[r].op = "CreateVersion"
        /\ loc[r] = [queries |-> 2, rollback |-> "failed"]
        /\ resp[r] = ErrorResponse(500, "store: update failed")
        /\ tx[r] = NoTx


\* the ids of the stored versions
VersionIds(vs) == {v.id : v \in vs}

\* C21: identifiers are assigned by the server: a CreateService answered 201
\* returns and stores an id that no stored service had and that is not the
\* body's, and a CreateVersion that commits stores, and when answered 201
\* returns, a row whose id no stored version had and is not the body's and
\* whose service_id is the path id, whatever service_id the body carried.
IdentifiersServerAssigned ==
    [][ \A r \in Req :
          /\ Answers(r, "CreateService", 201) =>
                LET id == resp'[r].entity.id
                IN  /\ id \notin DOMAIN services
                    /\ id # req'[r].body.id
                    /\ DOMAIN services' = DOMAIN services \cup {id}
          /\ (pc[r] = "commit" /\ pc'[r] = "done") =>
                /\ \A v \in versions' \ versions :
                      /\ v.service_id = req[r].id
                      /\ v.id \notin VersionIds(versions)
                      /\ v.id # req[r].body.id
                /\ resp'[r].status = 201 =>
                      /\ resp'[r].entity.service_id = req[r].id
                      /\ \E v \in versions' \ versions :
                            /\ v.id = resp'[r].entity.id
                            /\ v.service_id = resp'[r].entity.service_id
      ]_vars

\* a version posted to s2 with the id of a stored version and the
\* service_id of s1 in its body is stored under s2 with an id of its own
IdentifiersWitness ==
    \E r \in Req :
        /\ Answered(r, "CreateVersion", "s2") /\ req[r].body = ForgedBody
        /\ resp[r].status = 201
        /\ resp[r].entity.service_id = "s2" /\ resp[r].entity.id # "v1"
        /\ Cardinality(VersionsOf(versions, "s2")) = 2
        /\ VersionsOf(versions, "s1") = {}

\* the smaller of two numbers, and a number or 0 if it is negative
Min(a, b) == IF a < b THEN a ELSE b
NonNeg(a) == IF a < 0 THEN 0 ELSE a

\* the number of rows a GetServices or GetVersions request of r matches
MatchingRows(r) ==
    IF req[r].op = "GetServices" THEN Cardinality(DOMAIN services)
    ELSE Cardinality(VersionsOf(versions, req[r].id))

\* min(pageSize, max(0, total - (page-1)*pageSize)); it is 0 for every page
\* beyond total
ItemsOfPage(page, pageSize, total) ==
    IF IsSmall(page) /\ Small(page) <= total
    THEN Min(pageSize, NonNeg(total - (Small(page) - 1) * pageSize))
    ELSE 0

\* C22: with no write between its two reads, a GetServices or GetVersions
\* answered 200 for a validated page and pageSize over total matching rows
\* returns exactly min(pageSize, max(0, total - (page-1)*pageSize)) items,
\* and the total of its pagination is the number of matching rows.
ListReturnsPageOfTotal ==
    \A r \in Req :
        ( /\ pc[r] = "done" /\ req[r].op \in {"GetServices", "GetVersions"}
          /\ resp[r].status = 200 )
        => LET p == resp[r].pagination
           IN  /\ p.Total = MatchingRows(r)
               /\ p.Page = GetPaginationParams(req[r].query).Page
               /\ p.PageSize = Small(GetPaginationParams(req[r].query).PageSize)
               /\ Len(resp[r].data) = ItemsOfPage(p.Page, p.PageSize, p.Total)

\* an int widened to six limbs, by its sign
Widen(a) == a \o (IF IsNegative(a) THEN <<Limb - 1, Limb - 1>> ELSE <<0, 0>>)

\* C27: for every page and pageSize that pass the handlers' validation
\* (page >= 1 of any size an int holds, 1 <= pageSize <= 100) the offset
\* handed to the store is not negative and is the product (page-1)*pageSize
\* of the integers: it does not wrap around the width of an int.
OffsetNeverWraps ==
    \A r \in Req :
        pc[r] = "rows" =>
            LET params == loc[r].params
                offset == Offset(params)
            IN  /\ ~IsNegative(offset)
                /\ Widen(offset)
                      = MulLimbs[Widen(Add64(params.Page, I64(0 - 1))),
                                 Small(params.PageSize), 0]

\* the parameters the handler of r extracts from its query string
ExtractedParams(r) ==
    IF req[r].op = "SearchServices" THEN GetSearchParams(req[r].query)
    ELSE GetPaginationParams(req[r].query)

ListTotalDescribesData ==
    \A r \in Req :
        (pc[r] = "done" /\ req[r].op \in ListOps /\ resp[r].status = 200) =>
            LET p    == resp[r].pagination
                left == IF IsSmall(p.Page) /\ Small(p.Page) <= p.Total
                        THEN NonNeg(p.Total - (Small(p.Page) - 1) * p.PageSize)
                        ELSE 0
            IN  /\ Len(resp[r].data) <= left
                /\ Len(resp[r].data) >= Min(p.PageSize, left)

\* the ids of the rows a list response carries
IdsOf(data) == {data[i].id : i \in 1..Len(data)}

\* C25: over a store that does not change and with one pageSize, the pages
\* 1..totalPages of GetServices, or of GetVersions for one service, hold
\* every matching row exactly once, also when rows share their created_at:
\* here the two pages of the three services in pages of 2, and the two pages
\* of the two versions of a service in pages of 1.
PagesCoverEveryRowOnce ==
    ( /\ \A r \in Req : pc[r] = "done" /\ resp[r].status = 200
      /\ req["r1"].op = req["r2"].op )
    => /\ resp["r1"].pagination.TotalPages = 2
       /\ IdsOf(resp["r1"].data) \cap IdsOf(resp["r2"].data) = {}
       /\ IdsOf(resp["r1"].data) \cup IdsOf(resp["r2"].data)
             = IF req["r1"].op = "GetServices" THEN DOMAIN services
               ELSE VersionIds(VersionsOf(versions, BusyService))

\* page * pageSize < total, for a page of any size and a total below 2^30
RowsBeyondPage(page, pageSize, total) ==
    IsSmall(page) /\ Small(page) < total /\ Small(page) * pageSize < total

\* C26 as claimed: hasNext is true exactly when page * pageSize < total, and
\* a page beyond totalPages yields hasNext = false and hasPrev = true.
HasNextBeyondLastPage ==
    (calc.fn = "pagination" /\ calc.done) =>
        /\ calc.out.HasNext <=> RowsBeyondPage(I64(calc.page), calc.pageSize, calc.total)
        /\ calc.page > calc.out.TotalPages => ~calc.out.HasNext /\ calc.out.HasPrev

\* C26, amended: hasNext is true exactly when page * pageSize < total, and
\* a page beyond totalPages yields hasNext = false and hasPrev = (page > 1):
\* true except for page 1 of an empty listing, where it is false.
HasNextExactly ==
    (calc.fn = "pagination" /\ calc.done) =>
        /\ calc.out.HasNext <=> RowsBeyondPage(I64(calc.page), calc.pageSize, calc.total)
        /\ calc.page > calc.out.TotalPages =>
              /\ ~calc.out.HasNext
              /\ calc.out.HasPrev <=> (calc.page > 1)
              /\ ~calc.out.HasPrev <=> (calc.page = 1 /\ calc.total = 0)

\* page 4 of 25 rows in pages of 10 lies beyond the 3 pages: no next page,
\* a previous one
HasNextExactlyWitness ==
    /\ calc.fn = "pagination" /\ calc.done
    /\ calc.total = 25 /\ calc.pageSize = 10 /\ calc.page = 4
    /\ calc.out.TotalPages = 3 /\ ~calc.out.HasNext /\ calc.out.HasPrev

\* the same relation in the responses of the list handlers
ResponsesHasNextExactly ==
    \A r \in Req :
        (pc[r] = "done" /\ req[r].op \in ListOps /\ resp[r].status = 200) =>
            LET p == resp[r].pagination
            IN  /\ p.HasNext <=> RowsBeyondPage(p.Page, p.PageSize, p.Total)
                /\ Less64(I64(p.TotalPages), p.Page) =>
                      /\ ~p.HasNext
                      /\ p.HasPrev <=> Less64(I64(1), p.Page)

MonolithEquivalentResultRead ==
    [][ \A id \in Paths, o \in WriteOutcomes :
          /\ \A b \in MonoBodies :
                (\E n \in RowsWithError : updateService(Client, id, b, o, n))
                    <=> UpdateService(Client, id, b, o)
          /\ (\E n \in RowsWithError : deleteService(Client, id, o, n))
                    <=> DeleteService(Client, id, o)
      ]_vars
=============================================================================
